---- MODULE Spec2Model ----
(***************************************************************************)
(* A model of not3words.py: the geohash <-> integer <-> index-tuple <->    *)
(* word-address codec, its keyed word lists and its process-wide default   *)
(* hasher.                                                                 *)
(*                                                                         *)
(* Representation.                                                         *)
(*  - A Python int is unbounded; the codec's values reach 2^48.  They are  *)
(*    kept as little-endian sequences of 15-bit limbs without high zero    *)
(*    limbs (zero is << >>), so that equality of values is equality of     *)
(*    sequences.  The Big* operators are Python's int arithmetic on that   *)
(*    representation.                                                      *)
(*  - A str is a sequence of one-character strings.                        *)
(*  - A word is a natural number (its identity); HUMAN_WORDLIST holds the  *)
(*    256 words of the source tuple by position.                           *)
(***************************************************************************)
EXTENDS Integers, Sequences, FiniteSets, TLC

VARIABLES default_hasher, last_key, op, last, bench

vars == <<default_hasher, last_key, op, last, bench>>

(***************************************************************************)
(* Python int arithmetic                                                   *)
(***************************************************************************)
LimbBits == 15

RECURSIVE Pow2(_)
Pow2(n) == IF n = 0 THEN 1 ELSE 2 * Pow2(n - 1)

LimbBase == Pow2(LimbBits)

RECURSIVE BigNorm(_)
BigNorm(a) ==
    IF a = << >> THEN << >>
    ELSE IF a[Len(a)] = 0 THEN BigNorm(SubSeq(a, 1, Len(a) - 1))
    ELSE a

BigFromNat(n) == BigNorm(<<n % LimbBase, n \div LimbBase>>)

BigIsZero(a) == a = << >>

\* a * m + c, for 0 <= m <= 2^15 and 0 <= c < 2^15
RECURSIVE BigMulAdd(_, _, _)
BigMulAdd(a, m, c) ==
    IF a = << >> THEN BigFromNat(c)
    ELSE LET t == a[1] * m + c
         IN  BigNorm(<<t % LimbBase>> \o BigMulAdd(Tail(a), m, t \div LimbBase))

\* <<a // d, a % d>>, for 0 < d <= 2^15
RECURSIVE BigDivModFrom(_, _, _)
BigDivModFrom(a, d, r) ==
    IF a = << >> THEN <<<< >>, r>>
    ELSE LET t    == r * LimbBase + a[Len(a)]
             rest == BigDivModFrom(SubSeq(a, 1, Len(a) - 1), d, t % d)
         IN  <<Append(rest[1], t \div d), rest[2]>>

BigDivMod(a, d) ==
    LET qr == BigDivModFrom(a, d, 0) IN <<BigNorm(qr[1]), qr[2]>>

\* a >> n  (equally a // 2^n, the value being non-negative)
RECURSIVE BigShiftRight(_, _)
BigShiftRight(a, n) ==
    IF a = << >> \/ n = 0 THEN a
    ELSE IF n >= LimbBits THEN BigShiftRight(Tail(a), n - LimbBits)
    ELSE BigDivMod(a, Pow2(n))[1]

\* a << n  (equally a * 2^n)
RECURSIVE BigShiftLeft(_, _)
BigShiftLeft(a, n) ==
    IF a = << >> \/ n = 0 THEN a
    ELSE IF n >= LimbBits THEN <<0>> \o BigShiftLeft(a, n - LimbBits)
    ELSE BigMulAdd(a, Pow2(n), 0)

\* a & (2^bits - 1), for bits <= 15: a small number
BigLowBits(a, bits) == IF a = << >> THEN 0 ELSE a[1] % Pow2(bits)

RECURSIVE BigAddCarry(_, _, _)
BigAddCarry(a, b, c) ==
    IF a = << >> /\ b = << >> THEN (IF c = 0 THEN << >> ELSE <<c>>)
    ELSE LET x == IF a = << >> THEN 0 ELSE a[1]
             y == IF b = << >> THEN 0 ELSE b[1]
             t == x + y + c
         IN  <<t % LimbBase>> \o
             BigAddCarry(IF a = << >> THEN a ELSE Tail(a),
                         IF b = << >> THEN b ELSE Tail(b), t \div LimbBase)

BigAdd(a, b) == BigNorm(BigAddCarry(a, b, 0))

\* a < 2^bits
BigFits(a, bits) == BigIsZero(BigShiftRight(a, bits))

(***************************************************************************)
(* WordHasher: the geohash alphabet                                        *)
(***************************************************************************)
_symbols ==
    <<"0", "1", "2", "3", "4", "5", "6", "7", "8", "9", "b", "c", "d", "e",
      "f", "g", "h", "j", "k", "m", "n", "p", "q", "r", "s", "t", "u", "v",
      "w", "x", "y", "z">>

\* {ch: i for i, ch in enumerate(_symbols)}
_decode_symbols(ch) == (CHOOSE i \in 1..Len(_symbols) : _symbols[i] = ch) - 1

\* {i: ch for i, ch in enumerate(_symbols)}
_encode_symbols(i) == _symbols[i + 1]

Reversed(s) == [i \in 1..Len(s) |-> s[Len(s) + 1 - i]]

(***************************************************************************)
(* WordHasher: geohash string <-> integer                                  *)
(***************************************************************************)
RECURSIVE geo_to_int_loop(_, _)
geo_to_int_loop(geo_hash, number) ==
    IF geo_hash = << >> THEN number
    ELSE geo_to_int_loop(Tail(geo_hash),
             BigMulAdd(number, Len(_symbols), _decode_symbols(Head(geo_hash))))

geo_to_int(geo_hash) == geo_to_int_loop(geo_hash, << >>)

RECURSIVE int_to_geo_loop(_, _)
int_to_geo_loop(integer, syms) ==
    IF BigIsZero(integer) THEN syms
    ELSE LET qr == BigDivMod(integer, Len(_symbols))
         IN  int_to_geo_loop(qr[1], Append(syms, _encode_symbols(qr[2])))

int_to_geo(integer) == Reversed(int_to_geo_loop(integer, << >>))

\* pad asserts len(geo_hash) == 9
GeohashLen == 9

pad(geo_hash) == BigMulAdd(geo_to_int(geo_hash), 8, 0)

unpad(integer) == BigShiftRight(integer, 3)

(***************************************************************************)
(* WordHasher: integer <-> index tuple                                     *)
(***************************************************************************)
\* to_bytes without its bytes_list.reverse(): least-significant byte first
to_bytes_unreversed(integer) ==
    <<BigLowBits(integer, 8)>> \o
    [n \in 1..5 |-> BigLowBits(BigShiftRight(integer, n * 8), 8)]

to_bytes(integer) ==
    Reversed(<<BigLowBits(integer, 8)>> \o
             [n \in 1..5 |-> BigLowBits(BigShiftRight(integer, n * 8), 8)])

RECURSIVE SumShifted(_, _, _)
SumShifted(rev, width, n) ==
    IF n > Len(rev) THEN << >>
    ELSE BigAdd(BigShiftLeft(BigFromNat(rev[n]), width * (n - 1)),
                SumShifted(rev, width, n + 1))

bytes_to_int(bytes_list) == SumShifted(Reversed(bytes_list), 8, 1)

to_quads(integer) ==
    Reversed(<<BigLowBits(integer, 12)>> \o
             [n \in 1..3 |-> BigLowBits(BigShiftRight(integer, n * 12), 12)])

quads_to_int(quads) == SumShifted(Reversed(quads), 12, 1)

to_rugbits(integer) ==
    <<BigLowBits(BigShiftRight(integer, 30), 15),
      BigLowBits(BigShiftRight(integer, 15), 15),
      BigLowBits(integer, 15)>>

rugbits_to_int(rugbits) ==
    BigAdd(BigAdd(BigShiftLeft(BigFromNat(rugbits[1]), 30),
                  BigShiftLeft(BigFromNat(rugbits[2]), 15)),
           BigFromNat(rugbits[3]))

(***************************************************************************)
(* Word lists                                                              *)
(***************************************************************************)
\* len(HUMAN_WORDLIST): the tuple of lines 116-153 holds 256 distinct words
HUMAN_WORDLIST_SIZE == 256

\* a sequence given by its elements, as a tuple
List(f) == SubSeq(f, 1, Len(f))

\* a tuple that stops at 'stairway': 216 words
HUMAN_WORDLIST_short == List([i \in 1..216 |-> i - 1])

HUMAN_WORDLIST == List([i \in 1..HUMAN_WORDLIST_SIZE |-> i - 1])

\* words[:2**15]
TRUNCATE == 32768

Min(a, b) == IF a <= b THEN a ELSE b

\* The files words/google-ngram-list and words/google-ngram-list-4096 as
\* shipped: the number of words the data model gives each list.
google_ngram_list_words == 32768

google_ngram_list_4096_words == 4096

\* len(get_words(fname)) for a file of n distinct words
len_get_words(n) == Min(n, TRUNCATE)

(***************************************************************************)
(* get_words.  A file is the sequence of its words, one per line.  The     *)
(* word files are not part of the source: the model reads sample files.    *)
(* random.seed / random.shuffle are the Fisher-Yates shuffle of the        *)
(* library, driven here by a linear congruential generator in place of     *)
(* the Mersenne Twister: a fixed permutation for each length.              *)
(***************************************************************************)
\* random.seed(634634)
RANDOM_SEED == 634634

RandNext(x) == (x * 75 + 74) % 65537

Swap(x, i, j) == [x EXCEPT ![i] = x[j], ![j] = x[i]]

\* for i in reversed(range(1, len(x))): j = randbelow(i + 1); x[i], x[j] = x[j], x[i]
RECURSIVE shuffle_loop(_, _, _)
shuffle_loop(x, i, rnd) ==
    IF i < 1 THEN x
    ELSE LET r == RandNext(rnd)
         IN  shuffle_loop(Swap(x, i + 1, (r % (i + 1)) + 1), i - 1, r)

shuffle(x) == shuffle_loop(x, Len(x) - 1, RANDOM_SEED % 65537)

Range(s) == { s[i] : i \in 1..Len(s) }

get_words(file) ==
    LET words == shuffle(file)
        cut   == SubSeq(words, 1, Min(Len(words), TRUNCATE))
    IN  IF Len(cut) = Cardinality(Range(cut))
        THEN [status |-> "ok", words |-> cut]
        ELSE [status |-> "AssertionError", words |-> << >>]

\* The sample files: distinct words, far fewer than the shipped files hold.
SampleNgramWords == 40

SampleNgram4096Words == 24

SampleNgramFile == List([i \in 1..SampleNgramWords |-> 1000 + i])

SampleNgram4096File == List([i \in 1..SampleNgram4096Words |-> 5000 + i])

GOOGLE_WORDLIST == get_words(SampleNgramFile).words

GOOGLE_4096WORDS == get_words(SampleNgram4096File).words

(***************************************************************************)
(* key_shuffle.  Digest stands for hashlib.sha256((key + word)).hexdigest: *)
(* a function of key and word that gives distinct words distinct digests.  *)
(***************************************************************************)
None == "<None>"

Keys == {"", "alpha", "bravo"}

KeyArgs == {None} \cup Keys

KeyMul(key) == CASE key = "alpha" -> 7919 [] key = "bravo" -> 20011 [] OTHER -> 12345

KeyAdd(key) == CASE key = "alpha" -> 17 [] key = "bravo" -> 30011 [] OTHER -> 5

\* x -> x^3 is one-to-one modulo the prime 32771
Cube(x) == (((x * x) % 32771) * x) % 32771

Digest(key, word) == Cube(((word + 1) * KeyMul(key) + KeyAdd(key)) % 32771)

\* key_shuffle keeping the digest of each pair instead of the word
key_shuffle_digests(word_list, key) ==
    LET hashed == [i \in 1..Len(word_list) |->
                       <<word_list[i], Digest(key, word_list[i])>>]
        sorted == SortSeq(hashed, LAMBDA x, y : x[2] < y[2])
    IN  List([i \in 1..Len(sorted) |-> sorted[i][2]])

\* key_shuffle with sorted(..., reverse=True)
key_shuffle_descending(word_list, key) ==
    LET hashed == [i \in 1..Len(word_list) |->
                       <<word_list[i], Digest(key, word_list[i])>>]
        sorted == SortSeq(hashed, LAMBDA x, y : x[2] > y[2])
    IN  List([i \in 1..Len(sorted) |-> sorted[i][1]])

key_shuffle(word_list, key) ==
    LET hashed == [i \in 1..Len(word_list) |->
                       <<word_list[i], Digest(key, word_list[i])>>]
        sorted == SortSeq(hashed, LAMBDA x, y : x[2] < y[2])
    IN  List([i \in 1..Len(sorted) |-> sorted[i][1]])

(***************************************************************************)
(* WordHasher.__init__                                                     *)
(***************************************************************************)
\* the truth value of a key: None and "" are false
Truthy(key) == key # None /\ key # ""

WordHasher(key) ==
    IF Truthy(key)
    THEN [three_wordlist |-> key_shuffle(GOOGLE_WORDLIST, key),
          four_wordlist  |-> key_shuffle(GOOGLE_4096WORDS, key),
          six_wordlist   |-> key_shuffle(HUMAN_WORDLIST, key)]
    ELSE [three_wordlist |-> GOOGLE_WORDLIST,
          four_wordlist  |-> GOOGLE_4096WORDS,
          six_wordlist   |-> HUMAN_WORDLIST]

\* WordHasher(key) for each key of the model, built once
Hashers ==
    (None :> WordHasher(None)) @@ ("" :> WordHasher("")) @@
    ("alpha" :> WordHasher("alpha")) @@ ("bravo" :> WordHasher("bravo"))

NewWordHasher(key) == Hashers[key]


(***************************************************************************)
(* The packing functions on a bench: one input, then the functions applied *)
(* to it one after another.  bench.src is the input, bench.hist the        *)
(* functions applied so far and bench.value the current value.             *)
(***************************************************************************)
MaxSteps == 2

BenchSymbols == {"0", "z"}

BenchGeohashes ==
    [1..GeohashLen -> BenchSymbols] \cup
    { <<"r", "3", "g", "x", "2", "f", "9", "t", "t">>,
      <<"s", "0", "0", "0", "0", "0", "0", "0", "0">>,
      <<"0", "0", "0", "0", "0", "0", "0", "1", "5">>,
      <<"1", "0", "0", "0", "0", "0", "0", "0", "0">>,
      <<"0", "1", "2", "3", "4", "5", "6", "7", "8">>,
      <<"9", "b", "c", "d", "e", "f", "g", "h", "j">>,
      <<"k", "m", "n", "p", "q", "r", "s", "t", "u">>,
      <<"v", "w", "x", "y", "z", "0", "0", "0", "7">> }

BenchLimbs == {0, 1, 21845, 32767}

BenchTopLimbs == {0, 1, 5, 7}

\* integers below 2^48: three full limbs and three more bits
BenchInts ==
    { BigNorm(<<a, b, c, d>>) : a \in BenchLimbs, b \in BenchLimbs,
                                c \in BenchLimbs, d \in BenchTopLimbs }

BenchIdle ==
    [kind |-> "idle", srckind |-> "idle", src |-> << >>, value |-> << >>,
     hist |-> << >>]

BenchStart(kind, v) ==
    [kind |-> kind, srckind |-> kind, src |-> v, value |-> v, hist |-> << >>]

BenchApply(name, kind, v) ==
    /\ Len(bench.hist) < MaxSteps
    /\ bench' = [bench EXCEPT !.kind = kind, !.value = v,
                              !.hist = Append(bench.hist, name)]
    /\ UNCHANGED <<default_hasher, last_key, op, last>>

BenchGeoToInt ==
    /\ bench.kind = "geo"
    /\ BenchApply("geo_to_int", "int", geo_to_int(bench.value))

BenchIntToGeo ==
    /\ bench.kind = "int"
    /\ BenchApply("int_to_geo", "geo", int_to_geo(bench.value))

BenchPad ==
    /\ bench.kind = "geo"
    /\ IF Len(bench.value) = GeohashLen
       THEN BenchApply("pad", "int", pad(bench.value))
       ELSE BenchApply("pad", "AssertionError", << >>)

BenchUnpad ==
    /\ bench.kind = "int"
    /\ BenchApply("unpad", "int", unpad(bench.value))

BenchToBytes ==
    /\ bench.kind = "int"
    /\ BenchApply("to_bytes", "bytes", to_bytes(bench.value))

BenchBytesToInt ==
    /\ bench.kind = "bytes"
    /\ BenchApply("bytes_to_int", "int", bytes_to_int(bench.value))

BenchToQuads ==
    /\ bench.kind = "int"
    /\ BenchApply("to_quads", "quads", to_quads(bench.value))

BenchQuadsToInt ==
    /\ bench.kind = "quads"
    /\ BenchApply("quads_to_int", "int", quads_to_int(bench.value))

BenchToRugbits ==
    /\ bench.kind = "int"
    /\ BenchApply("to_rugbits", "rugbits", to_rugbits(bench.value))

BenchRugbitsToInt ==
    /\ bench.kind = "rugbits"
    /\ BenchApply("rugbits_to_int", "int", rugbits_to_int(bench.value))

(***************************************************************************)
(* Word addresses.  An address is text: a sequence of pieces, each a word  *)
(* or one of the separator characters.                                     *)
(***************************************************************************)
DASH == -1

DOT == -2

\* "-".join(words)
RECURSIVE Join(_)
Join(words) ==
    IF Len(words) <= 1 THEN words
    ELSE <<Head(words), DASH>> \o Join(Tail(words))

\* text.replace('.', '-')
Replace(text) == [i \in 1..Len(text) |-> IF text[i] = DOT THEN DASH ELSE text[i]]

\* text.split("-"): the tokens, each the text between two separators
RECURSIVE Split(_)
Split(text) ==
    IF \A i \in 1..Len(text) : text[i] # DASH THEN <<text>>
    ELSE LET k == CHOOSE i \in 1..Len(text) :
                      text[i] = DASH /\ \A j \in 1..(i - 1) : text[j] # DASH
         IN  <<SubSeq(text, 1, k - 1)>> \o Split(SubSeq(text, k + 1, Len(text)))

\* list.index(token): the first position holding the token, -1 for ValueError
Index(list, token) ==
    LET hits == IF Len(token) # 1 THEN {}
                ELSE { i \in 1..Len(list) : list[i] = token[1] }
    IN  IF hits = {} THEN -1
        ELSE (CHOOSE i \in hits : \A j \in hits : i <= j) - 1

(***************************************************************************)
(* WordHasher: encode and decode.  The geohash module is external: an      *)
(* encode call is given the geohash of its coordinates, and a decode call  *)
(* yields the geohash it hands to geohash.decode.                          *)
(***************************************************************************)
\* "-".join(wordlist[p] for p in indices)
Lookup(wordlist, indices) ==
    IF \E i \in 1..Len(indices) : indices[i] >= Len(wordlist)
    THEN [status |-> "IndexError", text |-> << >>]
    ELSE [status |-> "ok",
          text   |-> Join([i \in 1..Len(indices) |-> wordlist[indices[i] + 1]])]

three_words(self, gh) == Lookup(self.three_wordlist, to_rugbits(geo_to_int(gh)))

four_words(self, gh) == Lookup(self.four_wordlist, to_quads(pad(gh)))

six_words(self, gh) == Lookup(self.six_wordlist, to_bytes(pad(gh)))

Decoded(i) == [status |-> "ok", integer |-> i, geo_hash |-> int_to_geo(i)]

Failed(error) == [status |-> error, integer |-> << >>, geo_hash |-> << >>]

decode(self, text) ==
    LET words == Split(Replace(text))
        list  == IF Len(words) = 3 THEN self.three_wordlist
                 ELSE IF Len(words) = 4 THEN self.four_wordlist
                 ELSE self.six_wordlist
        idx   == [i \in 1..Len(words) |-> Index(list, words[i])]
    IN  IF Len(words) \notin {3, 4, 6} THEN Failed("RuntimeError")
        ELSE IF \E i \in 1..Len(idx) : idx[i] < 0 THEN Failed("ValueError")
        ELSE IF Len(words) = 3 THEN Decoded(rugbits_to_int(idx))
        ELSE IF Len(words) = 4 THEN Decoded(unpad(quads_to_int(idx)))
        ELSE Decoded(unpad(bytes_to_int(idx)))

(***************************************************************************)
(* The module: its default hasher and its top-level functions.             *)
(*   default_hasher  _default_hasher                                       *)
(*   last_key        the argument of the latest set_key, None before       *)
(*   op              the function called last                              *)
(*   last            the latest encode or decode call and its outcome      *)
(***************************************************************************)
NoEnc == [gh |-> << >>, n |-> 0, key |-> None]

NoCall ==
    [call |-> "none", gh |-> << >>, key |-> None, eff |-> None, words |-> 0,
     text |-> << >>, status |-> "none", integer |-> << >>, geo_hash |-> << >>,
     enc |-> NoEnc]

Geohashes ==
    { <<"0", "0", "0", "0", "0", "0", "0", "0", "0">>,
      <<"0", "0", "0", "0", "0", "0", "0", "0", "2">>,
      <<"0", "0", "0", "0", "0", "0", "0", "0", "s">>,
      <<"r", "3", "g", "x", "2", "f", "9", "t", "t">> }

\* The shipped lists cover the whole index space of their variant; a sample
\* list covers its first positions, and the inputs of the variant are the
\* geohashes whose indices lie there.
Covered(indices, size) == \A i \in 1..Len(indices) : indices[i] < size

ThreeWordInputs ==
    { gh \in Geohashes : Covered(to_rugbits(geo_to_int(gh)), SampleNgramWords) }

FourWordInputs ==
    { gh \in Geohashes : Covered(to_quads(pad(gh)), SampleNgram4096Words) }

SixWordInputs == Geohashes

\* a word that no list holds
UnknownWord == TRUNCATE + 1

SampleAddresses ==
    { <<GOOGLE_WORDLIST[1], DOT, GOOGLE_WORDLIST[1], DASH, GOOGLE_WORDLIST[3]>>,
      <<HUMAN_WORDLIST[2], DASH, HUMAN_WORDLIST[3]>>,
      <<UnknownWord, DASH, UnknownWord, DASH, UnknownWord>> }

Init ==
    /\ default_hasher = NewWordHasher(None)
    /\ last_key = None
    /\ op = "import"
    /\ last = NoCall
    /\ bench = BenchIdle

\* set_key without its global statement: the new hasher is a local
set_key_local(key) ==
    /\ last_key' = key
    /\ op' = "set_key"
    /\ UNCHANGED <<default_hasher, last, bench>>

set_key(key) ==
    /\ default_hasher' = NewWordHasher(key)
    /\ last_key' = key
    /\ op' = "set_key"
    /\ UNCHANGED <<last, bench>>

\* the hasher a top-level function uses
HasherFor(key) == IF key # None THEN NewWordHasher(key) ELSE default_hasher

\* an encode call that keeps the hasher it built as the default one
Encoded_keeps_hasher(name, n, gh, key, r) ==
    /\ last' = [NoCall EXCEPT !.call = name, !.gh = gh, !.key = key,
                              !.eff = IF key # None THEN key ELSE last_key,
                              !.words = n, !.text = r.text, !.status = r.status]
    /\ op' = name
    /\ default_hasher' = HasherFor(key)
    /\ UNCHANGED <<last_key, bench>>

Encoded(name, n, gh, key, r) ==
    /\ last' = [NoCall EXCEPT !.call = name, !.gh = gh, !.key = key,
                              !.eff = IF key # None THEN key ELSE last_key,
                              !.words = n, !.text = r.text, !.status = r.status]
    /\ op' = name
    /\ UNCHANGED <<default_hasher, last_key, bench>>

three_words_top(gh, key) ==
    Encoded("three_words", 3, gh, key, three_words(HasherFor(key), gh))

four_words_top(gh, key) ==
    Encoded("four_words", 4, gh, key, four_words(HasherFor(key), gh))

six_words_top(gh, key) ==
    Encoded("six_words", 6, gh, key, six_words(HasherFor(key), gh))

\* the addresses a caller may hold: the sample ones and the one encoded last
Addresses ==
    SampleAddresses \cup
    (IF last.call \in {"three_words", "four_words", "six_words"} /\ last.status = "ok"
     THEN {last.text} ELSE {})

\* the encode call an address came from
Origin(text) ==
    IF last.call \in {"three_words", "four_words", "six_words"} /\ text = last.text
    THEN [gh |-> last.gh, n |-> last.words, key |-> last.eff]
    ELSE NoEnc

DecodedCall(name, text, key, eff, words, r) ==
    /\ last' = [call |-> name, gh |-> << >>, key |-> key, eff |-> eff,
                words |-> words, text |-> text, status |-> r.status,
                integer |-> r.integer, geo_hash |-> r.geo_hash,
                enc |-> Origin(text)]
    /\ op' = name
    /\ UNCHANGED <<default_hasher, last_key, bench>>

decode_top(text, key) ==
    DecodedCall("decode", text, key, IF key # None THEN key ELSE last_key, 0,
                decode(HasherFor(key), text))

\* main(), decode subcommand: args.address, args.key, args.words
main_decode(address, key, words) ==
    LET hasher == IF Truthy(key) THEN NewWordHasher(key) ELSE default_hasher
    IN  DecodedCall("main_decode", address, key,
                    IF Truthy(key) THEN key ELSE last_key, words,
                    decode(hasher, Replace(address)))

MainKeyArgs == {None, "alpha"}

Next ==
    \/ \E key \in KeyArgs : set_key(key)
    \/ \E key \in KeyArgs : \E gh \in ThreeWordInputs : three_words_top(gh, key)
    \/ \E key \in KeyArgs : \E gh \in FourWordInputs : four_words_top(gh, key)
    \/ \E key \in KeyArgs : \E gh \in SixWordInputs : six_words_top(gh, key)
    \/ \E key \in KeyArgs : \E text \in Addresses : decode_top(text, key)
    \/ \E key \in MainKeyArgs : \E text \in Addresses : \E words \in {3, 4, 6} :
           main_decode(text, key, words)

Spec == Init /\ [][Next]_vars

\* key_shuffle, get_words and WordHasher on the bench
MaxListLen == 3

BenchWords == {0, 1, 2, 3}

BenchLists == UNION { [1..n -> BenchWords] : n \in 0..MaxListLen }

BenchFiles == {"words/google-ngram-list", "words/google-ngram-list-4096"}

BenchKeyShuffle ==
    /\ bench.kind = "shuffle_args"
    /\ BenchApply("key_shuffle", "list",
                  key_shuffle(bench.value.word_list, bench.value.key))

BenchGetWords ==
    /\ bench.kind = "file"
    /\ LET r == get_words(bench.value.lines)
       IN  BenchApply("get_words",
                      IF r.status = "ok" THEN "words" ELSE r.status, r.words)

BenchWordHasher ==
    /\ bench.kind = "key"
    /\ BenchApply("WordHasher", "hasher", WordHasher(bench.value))

BenchInit ==
    /\ default_hasher = NewWordHasher(None)
    /\ last_key = None
    /\ op = "import"
    /\ last = NoCall
    /\ \/ \E gh \in BenchGeohashes : bench = BenchStart("geo", gh)
       \/ \E v \in BenchInts : bench = BenchStart("int", v)
       \/ \E l \in BenchLists : \E key \in Keys :
              bench = BenchStart("shuffle_args", [word_list |-> l, key |-> key])
       \/ \E l \in BenchLists : \E f \in BenchFiles :
              bench = BenchStart("file", [fname |-> f, lines |-> l])
       \/ \E key \in KeyArgs : bench = BenchStart("key", key)

BenchNext ==
    \/ BenchGeoToInt
    \/ BenchIntToGeo
    \/ BenchPad
    \/ BenchUnpad
    \/ BenchToBytes
    \/ BenchBytesToInt
    \/ BenchToQuads
    \/ BenchQuadsToInt
    \/ BenchToRugbits
    \/ BenchRugbitsToInt
    \/ BenchKeyShuffle
    \/ BenchGetWords
    \/ BenchWordHasher

SpecBench == BenchInit /\ [][BenchNext]_vars

(***************************************************************************)
(* Properties                                                              *)
(***************************************************************************)
EncodeCalls == {"three_words", "four_words", "six_words"}

DecodeCalls == {"decode", "main_decode"}

TokenCount(text) == Len(Split(Replace(text)))

\* the latest call decoded an address that an encode call produced
DecodedEncoded == last.call \in DecodeCalls /\ last.enc # NoEnc

\* C1: round trip.  Every encode call succeeds, and decoding the address it
\* produced with the same key yields the 9-character geohash it started from.
C1_RoundTrip ==
    /\ last.call \in EncodeCalls => last.status = "ok"
    /\ DecodedEncoded /\ last.enc.key = last.eff =>
           last.status = "ok" /\ last.geo_hash = last.enc.gh

\* C2: every index encode produces is a valid position of the word list of
\* its variant: the rugbits of a geohash in the 3-word list, the quads of
\* its padded integer in the 4-word list, the bytes in the 6-word list.
C2_IndicesInRange ==
    bench.srckind = "geo" =>
        /\ bench.hist = <<"geo_to_int", "to_rugbits">> =>
               Covered(bench.value, len_get_words(google_ngram_list_words))
        /\ bench.hist = <<"pad", "to_quads">> =>
               Covered(bench.value, len_get_words(google_ngram_list_4096_words))
        /\ bench.hist = <<"pad", "to_bytes">> =>
               Covered(bench.value, Len(HUMAN_WORDLIST))

C2_Witness ==
    /\ bench.srckind = "geo"
    /\ bench.hist = <<"pad", "to_bytes">>
    /\ bench.value[1] = 255

\* C3: geohash strings and integers correspond one to one: int_to_geo
\* undoes geo_to_int on every 9-character string, and for every integer
\* below 32^9 int_to_geo gives 9 characters that geo_to_int turns back.
C3_Bijection ==
    /\ bench.srckind = "geo" /\ bench.hist = <<"geo_to_int", "int_to_geo">> =>
           bench.value = bench.src
    /\ bench.srckind = "int" /\ BigFits(bench.src, 45) =>
           /\ bench.hist = <<"int_to_geo">> => Len(bench.value) = GeohashLen
           /\ bench.hist = <<"int_to_geo", "geo_to_int">> => bench.value = bench.src

\* the groups of width w of an integer below 2^(w * n), most significant
\* first: n numbers below 2^w, the first the top w bits, the last the low ones
GroupsOf(groups, v, w, n) ==
    /\ Len(groups) = n
    /\ \A i \in 1..n : groups[i] \in 0..(Pow2(w) - 1)
    /\ BigFromNat(groups[1]) = BigShiftRight(v, w * (n - 1))
    /\ groups[n] = BigLowBits(v, w)

\* C4: bit-packing inverse laws.  rugbits_to_int undoes to_rugbits below
\* 2^45, quads_to_int undoes to_quads and bytes_to_int undoes to_bytes below
\* 2^48; the groups come most significant first, each within its width.
C4_PackInverse ==
    bench.srckind = "int" =>
        /\ BigFits(bench.src, 45) =>
               /\ bench.hist = <<"to_rugbits">> =>
                      GroupsOf(bench.value, bench.src, 15, 3)
               /\ bench.hist = <<"to_rugbits", "rugbits_to_int">> =>
                      bench.value = bench.src
        /\ BigFits(bench.src, 48) =>
               /\ bench.hist = <<"to_quads">> =>
                      GroupsOf(bench.value, bench.src, 12, 4)
               /\ bench.hist = <<"to_quads", "quads_to_int">> =>
                      bench.value = bench.src
               /\ bench.hist = <<"to_bytes">> =>
                      GroupsOf(bench.value, bench.src, 8, 6)
               /\ bench.hist = <<"to_bytes", "bytes_to_int">> =>
                      bench.value = bench.src

C4_Witness ==
    /\ bench.srckind = "int"
    /\ bench.src = <<21845, 1, 32767, 7>>
    /\ bench.hist = <<"to_bytes", "bytes_to_int">>
    /\ bench.value = bench.src

\* C5: decode fails with the word-count error when the address has a number
\* of tokens other than 3, 4 or 6, and when that number differs from the
\* word count the caller declared (--words).
C5_WordCount ==
    /\ last.call \in DecodeCalls /\ TokenCount(last.text) \notin {3, 4, 6} =>
           last.status = "RuntimeError"
    /\ last.call = "main_decode" /\ TokenCount(last.text) # last.words =>
           last.status = "RuntimeError"

\* the address was encoded with one key and decoded with another, or
\* encoded with a key and decoded with none, or the reverse
OtherKey ==
    /\ DecodedEncoded
    /\ last.enc.key # last.eff
    /\ Truthy(last.enc.key) \/ Truthy(last.eff)

\* C6, as claimed: decoding an address with another key than the one it was
\* encoded with fails with the unknown-word error.
C6_WrongKeyFails == OtherKey => last.status = "ValueError"

\* C6, amended: decoding an address with another key than the one it was
\* encoded with never fails: every word of the address is found in the
\* list of the decoding key, and decode hands a geohash to geohash.decode.
C6_WrongKeyDecodes == OtherKey => last.status = "ok"

C6_Witness ==
    /\ OtherKey
    /\ last.enc.key = "alpha"
    /\ last.eff = "bravo"
    /\ last.status = "ok"
    /\ last.integer # geo_to_int(last.enc.gh)

\* the outcome of the latest call, had hasher made it
OutcomeWith(hasher) ==
    IF last.call = "three_words" THEN three_words(hasher, last.gh)
    ELSE IF last.call = "four_words" THEN four_words(hasher, last.gh)
    ELSE IF last.call = "six_words" THEN six_words(hasher, last.gh)
    ELSE decode(hasher, last.text)

SameOutcome(r) ==
    IF last.call \in EncodeCalls
    THEN last.status = r.status /\ last.text = r.text
    ELSE last.status = r.status /\ last.integer = r.integer
         /\ last.geo_hash = r.geo_hash

\* C7: the default hasher is the one of the latest set_key (of no key
\* before the first), and a top-level call without a key gives what
\* WordHasher(key = k) gives, k being the argument of the latest set_key
\* before the call.
C7_DefaultKey ==
    /\ default_hasher = NewWordHasher(last_key)
    /\ last.call \in EncodeCalls \cup {"decode"} /\ last.key = None =>
           SameOutcome(OutcomeWith(NewWordHasher(last.eff)))

C7_Witness ==
    /\ last.call = "decode"
    /\ last.key = None
    /\ last.eff = "alpha"
    /\ last.enc.key = "alpha"
    /\ last.status = "ok"
    /\ last_key = "bravo"

\* C8: get_words returns a list without duplicates and of the required
\* length (2^15 for the 3-word list, 2^12 for the 4-word list), and fails
\* when the file has too few words for it.
RequiredLength(fname) ==
    IF fname = "words/google-ngram-list-4096" THEN Pow2(12) ELSE Pow2(15)

C8_ListIntegrity ==
    bench.hist = <<"get_words">> =>
        /\ bench.kind = "words" =>
               /\ Cardinality(Range(bench.value)) = Len(bench.value)
               /\ Len(bench.value) = RequiredLength(bench.src.fname)
        /\ Len(bench.src.lines) < RequiredLength(bench.src.fname) =>
               bench.kind # "words"

Count(s, w) == Cardinality({ i \in 1..Len(s) : s[i] = w })

\* C9: key_shuffle returns the words of its list, each as often as the list
\* holds it, in ascending order of digest; a hasher built without a key
\* holds the three base lists as they are.
C9_KeyShuffle ==
    /\ bench.hist = <<"key_shuffle">> =>
           /\ Len(bench.value) = Len(bench.src.word_list)
           /\ \A w \in BenchWords :
                  Count(bench.value, w) = Count(bench.src.word_list, w)
           /\ \A i \in 1..Len(bench.value) : \A j \in i..Len(bench.value) :
                  Digest(bench.src.key, bench.value[i])
                      <= Digest(bench.src.key, bench.value[j])
    /\ bench.hist = <<"WordHasher">> /\ bench.src = None =>
           bench.value = [three_wordlist |-> GOOGLE_WORDLIST,
                          four_wordlist  |-> GOOGLE_4096WORDS,
                          six_wordlist   |-> HUMAN_WORDLIST]

C9_Witness ==
    /\ bench.hist = <<"key_shuffle">>
    /\ bench.src.word_list = <<0, 1, 2>>
    /\ bench.value # bench.src.word_list

\* C10: only set_key changes the default hasher: an encode or decode call,
\* with or without a key, whatever its outcome, leaves it as it was.
C10_OnlySetKey ==
    [][op' # "set_key" => default_hasher' = default_hasher]_vars

C10_Witness ==
    /\ op \in EncodeCalls \cup DecodeCalls
    /\ last.key = "alpha"
    /\ last.status = "ok"
    /\ default_hasher = NewWordHasher("bravo")

====
